---------------------------- MODULE Spec2Model ----------------------------
(***************************************************************************)
(* A model of solution.py: discovery of the JSON catalogs                  *)
(* (find_json_files), their merge into the Catalog Table                   *)
(* (merge_json_files), the left join onto the external CSV                 *)
(* (join_csv_files) and the driver (main).                                 *)
(*                                                                         *)
(* Text is a sequence of one-character strings, so that comparison,        *)
(* suffix tests, lower-casing and concatenation are computed as Python     *)
(* computes them.  A table is a record [columns, rows]: the ordered        *)
(* column names and the rows, each a function from column name to cell.    *)
(***************************************************************************)
EXTENDS Integers, Sequences, FiniteSets, TLC

VARIABLES
    fs,              \* the files on disk: a set of [dir, name]
    content,         \* what each file of fs holds
    pc,              \* position of the running function
    base_dir,        \* find_json_files' argument
    json_files,      \* the list find_json_files returns / merge_json_files takes
    input_csv_path,  \* main's input_csv_path / join_csv_files' argument
    merged_df,       \* the Catalog Table held in memory
    joined_df,       \* the Joined Table held in memory
    merged_output,   \* the table written to merged_output.csv
    joined_output,   \* the table written to joined_output.csv
    fault            \* the exception that left the function, or "none"

vars == <<fs, content, pc, base_dir, json_files, input_csv_path, merged_df,
          joined_df, merged_output, joined_output, fault>>

----------------------------------------------------------------------------
(* Bounds of the model *)

\* files on disk in the discovery and driver specifications
MaxFiles == 3
\* JSON items over all files given to merge_json_files
MaxRecords == 3
\* JSON items behind a Catalog Table handed to join_csv_files
MaxCatalogRecords == 2
\* rows of the external CSV
MaxRows == 2

----------------------------------------------------------------------------
(* Text *)

Upper == <<"A","B","C","D","E","F","G","H","I","J","K","L","M",
           "N","O","P","Q","R","S","T","U","V","W","X","Y","Z">>
Lower == <<"a","b","c","d","e","f","g","h","i","j","k","l","m",
           "n","o","p","q","r","s","t","u","v","w","x","y","z">>
Digit == <<"0","1","2","3","4","5","6","7","8","9">>

IndexIn(seq, c) == CHOOSE i \in 1..Len(seq) : seq[i] = c
IsIn(seq, c) == \E i \in 1..Len(seq) : seq[i] = c

\* The code point of a character (the characters the model uses).
Ord(c) ==
    IF c = "." THEN 46
    ELSE IF c = "/" THEN 47
    ELSE IF IsIn(Digit, c) THEN 47 + IndexIn(Digit, c)
    ELSE IF IsIn(Upper, c) THEN 64 + IndexIn(Upper, c)
    ELSE IF c = "_" THEN 95
    ELSE 96 + IndexIn(Lower, c)

\* Python's str < str: by code point, a proper prefix first.
StrLess(a, b) ==
    \E i \in 1..Len(b) :
        /\ i <= Len(a) + 1
        /\ \A j \in 1..(i - 1) : a[j] = b[j]
        /\ (i = Len(a) + 1 \/ Ord(a[i]) < Ord(b[i]))

StrLeq(a, b) == a = b \/ StrLess(a, b)

\* str.endswith
EndsWith(s, suf) ==
    /\ Len(suf) <= Len(s)
    /\ SubSeq(s, Len(s) - Len(suf) + 1, Len(s)) = suf

\* str.lower
LowerChar(c) == IF IsIn(Upper, c) THEN Lower[IndexIn(Upper, c)] ELSE c
StrLower(s) == [i \in 1..Len(s) |-> LowerChar(s[i])]

\* sub in s
Contains(s, sub) ==
    \E i \in 1..(Len(s) - Len(sub) + 1) : SubSeq(s, i, i + Len(sub) - 1) = sub

\* str(n) of an int n >= 0
RECURSIVE IntStr(_)
IntStr(n) == IF n < 10 THEN <<Digit[n + 1]>>
             ELSE IntStr(n \div 10) \o <<Digit[(n % 10) + 1]>>

\* sorted(): the elements of a set of texts in ascending order
RECURSIVE sorted(_)
sorted(S) ==
    IF S = {} THEN <<>>
    ELSE LET m == CHOOSE x \in S : \A y \in S : StrLeq(x, y)
         IN  <<m>> \o sorted(S \ {m})

Range(seq) == {seq[i] : i \in 1..Len(seq)}

\* The texts the program and the inputs use.
DOT        == <<".">>
SEP        == <<"/">>
JSON_EXT   == <<".","j","s","o","n">>
DATA       == <<"d","a","t","a">>
SUB        == <<"s","u","b">>
MACOSX     == <<"_","M","A","C","O","S","X">>
DS_STORE   == <<".","D","S","_","S","t","o","r","e">>
A_JSON     == <<"a",".","j","s","o","n">>
B_JSON     == <<"b",".","j","s","o","n">>
INPUT_CSV  == <<"i","n","p","u","t",".","c","s","v">>

----------------------------------------------------------------------------
(* The file system: a file is [dir |-> the directories from the current   *)
(* directory down to it, name |-> its name]; the directories that exist    *)
(* are the current directory and those on the way to a file.               *)

IsPrefix(p, q) == Len(p) <= Len(q) /\ SubSeq(q, 1, Len(p)) = p

IsDir(F, d) == d = <<>> \/ \E e \in F : IsPrefix(d, e.dir)
IsFile(F, d, n) == [dir |-> d, name |-> n] \in F

\* os.path.join(root, name), root not empty
PathJoin(root, name) == root \o SEP \o name

\* The place a one-component relative path names.
Loc(path) == IF path = DOT THEN <<>> ELSE <<path>>

\* os.path.exists of a one-component relative path
PathExists(F, path) ==
    \/ IsDir(F, Loc(path))
    \/ IsFile(F, <<>>, path)

DirsIn(F, d) == {e.dir[Len(d) + 1] : e \in {x \in F : IsPrefix(d, x.dir) /\ Len(x.dir) > Len(d)}}
FilesIn(F, d) == {e.name : e \in {x \in F : x.dir = d}}

----------------------------------------------------------------------------
(* find_json_files *)

exclude_dirs == {MACOSX, DS_STORE}

\* The walk with line 25's filter left out.
RECURSIVE WalkNoExclude(_, _, _)
WalkNoExclude(F, root, d) ==
    {PathJoin(root, f) : f \in {n \in FilesIn(F, d) : EndsWith(n, JSON_EXT)}}
    \cup UNION {WalkNoExclude(F, PathJoin(root, n), d \o <<n>>) : n \in DirsIn(F, d)}

\* for root, dirs, files in os.walk(base_dir): the directories named in
\* exclude_dirs are pruned, the files ending in .json are collected.  The
\* order in which os.walk visits directories is not fixed; the result is
\* sorted afterwards, so the collected paths are kept as a set.
RECURSIVE Walk(_, _, _)
Walk(F, root, d) ==
    {PathJoin(root, f) : f \in {n \in FilesIn(F, d) : EndsWith(n, JSON_EXT)}}
    \cup UNION {Walk(F, PathJoin(root, n), d \o <<n>>) :
                    n \in DirsIn(F, d) \ exclude_dirs}

find_json_files(F, base) ==
    IF ~PathExists(F, base) THEN <<>>
    ELSE IF ~IsDir(F, Loc(base)) THEN <<>>
    ELSE sorted(Walk(F, base, Loc(base)))

----------------------------------------------------------------------------
\* No table.
NoTable == [columns |-> <<>>, rows |-> <<>>, none |-> TRUE]

(* Cells.  A cell is an int, a float with an integral value, a text or    *)
(* NaN (pandas' missing value).                                            *)

IntV(k)   == [t |-> "int",   n |-> k, s |-> <<>>]
FloatV(k) == [t |-> "float", n |-> k, s |-> <<>>]
StrV(x)   == [t |-> "str",   n |-> 0, s |-> x]
NaN       == [t |-> "nan",   n |-> 0, s |-> <<>>]
EmptyStr  == StrV(<<>>)

\* Column names
SKU      == <<"s","k","u">>
ID       == <<"i","d">>
NAME     == <<"n","a","m","e">>
BRAND    == <<"b","r","a","n","d">>
CATEGORY == <<"c","a","t","e","g","o","r","y">>
PRICE    == <<"p","r","i","c","e">>

\* A column as pandas types it: ints stay ints; ints with missing values
\* become floats; anything else is an object column holding the values as
\* they are.
ColumnCells(rows, c) == {rows[i][c] : i \in 1..Len(rows)}

\* The columns pandas types float64: numbers only, one of them missing.
FloatColumns(rows, cols) ==
    {c \in cols : /\ \A v \in ColumnCells(rows, c) : v.t \in {"int", "float", "nan"}
                  /\ \E v \in ColumnCells(rows, c) : v.t # "int"}

\* pd.DataFrame(list of dicts): the columns are the keys of the records, a
\* key a record lacks is NaN in its row.
DataFrame(records) ==
    LET cols   == UNION {DOMAIN records[i] : i \in 1..Len(records)}
        raw    == [i \in 1..Len(records) |->
                      [c \in cols |-> IF c \in DOMAIN records[i]
                                      THEN records[i][c] ELSE NaN]]
        floats == FloatColumns(raw, cols)
    IN  [columns |-> cols,
         rows    |-> [i \in 1..Len(raw) |->
                        [c \in cols |-> IF c \in floats /\ raw[i][c].t = "int"
                                        THEN FloatV(raw[i][c].n) ELSE raw[i][c]]]]

----------------------------------------------------------------------------
(* Paths *)

\* The components of a path, split at "/".
RECURSIVE Split(_)
Split(path) ==
    IF ~IsIn(path, "/") THEN <<path>>
    ELSE LET i == CHOOSE k \in 1..Len(path) :
                      path[k] = "/" /\ \A j \in 1..(k - 1) : path[j] # "/"
         IN  <<SubSeq(path, 1, i - 1)>> \o Split(SubSeq(path, i + 1, Len(path)))

\* The file a relative path names.
Resolve(path) ==
    LET parts == SelectSeq(Split(path), LAMBDA x : x # DOT)
    IN  [dir |-> SubSeq(parts, 1, Len(parts) - 1), name |-> parts[Len(parts)]]

\* os.path.basename
basename(path) == LET parts == Split(path) IN parts[Len(parts)]

\* os.path.splitext(name)[0]: the name up to its last dot, unless that dot
\* only follows dots.
splitext0(name) ==
    LET dots == {i \in 1..Len(name) : name[i] = "."}
    IN  IF dots = {} THEN name
        ELSE LET last == CHOOSE i \in dots : \A j \in dots : j <= i
             IN  IF \A j \in 1..(last - 1) : name[j] = "." THEN name
                 ELSE SubSeq(name, 1, last - 1)

----------------------------------------------------------------------------
(* merge_json_files *)

\* What a file holds.  A JSON file is [kind, items]: kind "list" (a JSON
\* array and its items), "object" (a JSON object; iterating it yields its
\* keys, which are texts) or "malformed" (not JSON).  An item is [obj |-> TRUE, fields |-> the record] or, for anything
\* that is not a JSON object, [obj |-> FALSE, fields |-> <<>>].
Scalar == [obj |-> FALSE, fields |-> <<>>]
Obj(f) == [obj |-> TRUE, fields |-> f]

\* Lines 47-62 for one file: [ok, records].  open() raises for a file that
\* is not there, json.load for malformed text, the for loop for a value
\* that cannot be iterated, item['category'] = ... for an item that is not
\* an object; all_records.extend(data) is reached only when none did.
ReadFile(F, C, path) ==
    LET e        == Resolve(path)
        category == splitext0(basename(path))
    IN  IF e \notin F THEN [ok |-> FALSE, records |-> <<>>]
        ELSE LET data == C[e]
             IN  IF data.kind \notin {"list", "object"}
                 THEN [ok |-> FALSE, records |-> <<>>]
                 ELSE IF \E i \in 1..Len(data.items) : ~data.items[i].obj
                 THEN [ok |-> FALSE, records |-> <<>>]
                 ELSE [ok |-> TRUE,
                       records |-> [i \in 1..Len(data.items) |->
                           [c \in DOMAIN data.items[i].fields \cup {CATEGORY} |->
                               IF c = CATEGORY THEN StrV(category)
                               ELSE data.items[i].fields[c]]]]

\* The loop of lines 46-62: all_records after the files of the list.
RECURSIVE AllRecords(_, _, _)
AllRecords(F, C, files) ==
    IF files = <<>> THEN <<>>
    ELSE ReadFile(F, C, Head(files)).records \o AllRecords(F, C, Tail(files))

\* Lines 68-69
RenameId(df) ==
    IF ID \in df.columns /\ SKU \notin df.columns
    THEN [columns |-> (df.columns \ {ID}) \cup {SKU},
          rows    |-> [i \in 1..Len(df.rows) |->
                        [c \in (df.columns \ {ID}) \cup {SKU} |->
                            IF c = SKU THEN df.rows[i][ID] ELSE df.rows[i][c]]]]
    ELSE df

\* sort_values('category'): ascending, rows of equal category in their
\* original order.
RECURSIVE InsertByCategory(_, _)
InsertByCategory(rows, r) ==
    IF rows = <<>> THEN <<r>>
    ELSE LET last == rows[Len(rows)]
         IN  IF StrLeq(last[CATEGORY].s, r[CATEGORY].s) THEN Append(rows, r)
             ELSE Append(InsertByCategory(SubSeq(rows, 1, Len(rows) - 1), r), last)

RECURSIVE SortByCategory(_)
SortByCategory(rows) ==
    IF rows = <<>> THEN <<>>
    ELSE InsertByCategory(SortByCategory(SubSeq(rows, 1, Len(rows) - 1)),
                          rows[Len(rows)])

\* The indices a selection keeps, as a sequence of rows.
RECURSIVE Keep(_, _, _)
Keep(rows, kept, i) ==
    IF i > Len(rows) THEN <<>>
    ELSE (IF i \in kept THEN <<rows[i]>> ELSE <<>>) \o Keep(rows, kept, i + 1)

\* drop_duplicates(subset='sku', keep='first')
DropDuplicatesKeepFirst(rows) ==
    Keep(rows, {i \in 1..Len(rows) : \A j \in 1..(i - 1) : rows[j][SKU] # rows[i][SKU]}, 1)

\* drop_duplicates(subset='sku', keep='last')
DropDuplicates(rows) ==
    Keep(rows, {i \in 1..Len(rows) :
                    \A j \in (i + 1)..Len(rows) : rows[j][SKU] # rows[i][SKU]}, 1)

required_columns == <<SKU, NAME, BRAND, CATEGORY>>

\* Lines 76-83: the required columns a table lacks are added holding "",
\* and the table is cut to the required columns in their order.
Normalize(df) ==
    [columns |-> required_columns,
     rows    |-> [i \in 1..Len(df.rows) |->
                    [c \in Range(required_columns) |->
                        IF c \in df.columns THEN df.rows[i][c] ELSE EmptyStr]]]

\* merge_json_files(json_files): [raised, df].  sort_values raises KeyError
\* for a table without a category column (the table of no records has no
\* columns), drop_duplicates for a table without a sku column.
merge_json_files(F, C, files) ==
    LET df == RenameId(DataFrame(AllRecords(F, C, files)))
    IN  IF CATEGORY \notin df.columns \/ SKU \notin df.columns
        THEN [raised |-> "KeyError", df |-> NoTable]
        ELSE [raised |-> "none",
              df |-> Normalize([columns |-> df.columns,
                                rows |-> DropDuplicates(SortByCategory(df.rows))])]

----------------------------------------------------------------------------
(* join_csv_files *)

PRODUCT_SKU == <<"p","r","o","d","u","c","t","_","s","k","u">>
SUFFIX_X    == <<"_","x">>
SUFFIX_Y    == <<"_","y">>
TXT_NAN     == <<"n","a","n">>
TXT_DOT0    == <<".","0">>

IsIntText(x) == x # <<>> /\ \A i \in 1..Len(x) : IsIn(Digit, x[i])

\* int(text) of a text of digits
RECURSIVE ParseInt(_)
ParseInt(x) ==
    IF x = <<>> THEN 0
    ELSE 10 * ParseInt(SubSeq(x, 1, Len(x) - 1)) + (IndexIn(Digit, x[Len(x)]) - 1)

\* A CSV file is [kind |-> "csv", columns, rows], its cells the texts
\* between the commas.  pd.read_csv types each column: digits only, int64;
\* digits and empty cells, float64 with NaN for the empty ones; otherwise
\* the texts as they are, NaN for the empty ones.
ReadCell(cells, x) ==
    IF \A y \in cells : IsIntText(y) THEN IntV(ParseInt(x))
    ELSE IF \A y \in cells : y = <<>> \/ IsIntText(y)
         THEN (IF x = <<>> THEN NaN ELSE FloatV(ParseInt(x)))
    ELSE IF x = <<>> THEN NaN ELSE StrV(x)

\* pd.read_csv(path): [raised, df]
read_csv(F, C, path) ==
    LET e == Resolve(path)
    IN  IF e \notin F THEN [raised |-> "FileNotFoundError", df |-> NoTable]
        ELSE LET csv == C[e]
             IN  [raised |-> "none",
                  df |-> [columns |-> csv.columns,
                          rows |-> [i \in 1..Len(csv.rows) |->
                              [c \in Range(csv.columns) |->
                                  ReadCell(ColumnCells(csv.rows, c), csv.rows[i][c])]]]]

IsSkuCandidate(col) == Contains(StrLower(col), SKU)

\* sku_candidates[0]
FirstSkuCandidate(columns) ==
    columns[CHOOSE i \in 1..Len(columns) :
                /\ IsSkuCandidate(columns[i])
                /\ \A j \in 1..(i - 1) : ~IsSkuCandidate(columns[j])]

\* Lines 100-109 with the candidates searched before product_sku.
JoinColumnCandidateFirst(columns) ==
    IF \E i \in 1..Len(columns) : IsSkuCandidate(columns[i])
    THEN FirstSkuCandidate(columns)
    ELSE PRODUCT_SKU

\* Lines 100-109: product_sku when the table has it, else the first column
\* whose lower-cased name contains "sku", else product_sku all the same.
JoinColumn(columns) ==
    IF PRODUCT_SKU \in Range(columns) THEN PRODUCT_SKU
    ELSE IF \E i \in 1..Len(columns) : IsSkuCandidate(columns[i])
    THEN FirstSkuCandidate(columns)
    ELSE PRODUCT_SKU

\* str(v) of a cell, as astype(str) applies it: NaN gives "nan", a float
\* with an integral value ends in ".0".
CellStr(v) ==
    IF v.t = "int" THEN IntStr(v.n)
    ELSE IF v.t = "float" THEN IntStr(v.n) \o TXT_DOT0
    ELSE IF v.t = "nan" THEN TXT_NAN
    ELSE v.s

\* df[col] = df[col].astype(str)
AsTypeStr(df, col) ==
    [columns |-> df.columns,
     rows    |-> [i \in 1..Len(df.rows) |->
                    [c \in Range(df.columns) |->
                        IF c = col THEN StrV(CellStr(df.rows[i][c]))
                        ELSE df.rows[i][c]]]]

RECURSIVE Flatten(_)
Flatten(seqs) == IF seqs = <<>> THEN <<>> ELSE Head(seqs) \o Flatten(Tail(seqs))

Select(seq, S) == Keep(seq, {i \in 1..Len(seq) : seq[i] \in S}, 1)

\* The columns of pd.merge(left, right, left_on=key, right_on='sku'): those
\* of left, then those of right; a name both have gets the suffixes _x and
\* _y; when key is 'sku' itself the two key columns are one, left's.
RightColumns(right, key) ==
    IF key = SKU THEN Select(right.columns, Range(right.columns) \ {SKU})
    ELSE right.columns

Overlap(left, right, key) == Range(left.columns) \cap Range(RightColumns(right, key))

\* The name each column of left has in the merge, and each column of right.
LeftNames(left, right, key) ==
    [c \in Range(left.columns) |->
        IF c \in Overlap(left, right, key) THEN c \o SUFFIX_X ELSE c]
RightNames(left, right, key) ==
    [c \in Range(RightColumns(right, key)) |->
        IF c \in Overlap(left, right, key) THEN c \o SUFFIX_Y ELSE c]

MergeColumns(left, right, key) ==
    LET ln == LeftNames(left, right, key)
        rn == RightNames(left, right, key)
        rc == RightColumns(right, key)
    IN  [i \in 1..Len(left.columns) |-> ln[left.columns[i]]]
        \o [i \in 1..Len(rc) |-> rn[rc[i]]]

\* A row of the merge: the left row l with the right row r, or with NaN in
\* right's columns when r is NoRow.
NoRow == <<>>
MergeRow(ln, rn, l, r) ==
    [n \in {ln[c] : c \in DOMAIN ln} \cup {rn[c] : c \in DOMAIN rn} |->
        IF \E c \in DOMAIN ln : ln[c] = n
        THEN l[CHOOSE c \in DOMAIN ln : ln[c] = n]
        ELSE IF r = NoRow THEN NaN
        ELSE r[CHOOSE c \in DOMAIN rn : rn[c] = n]]

\* The right rows a left row matches, in right's order.
Matches(right, v) == Keep(right.rows, {j \in 1..Len(right.rows) : right.rows[j][SKU] = v}, 1)

\* An inner join: the left rows without a match are dropped.
MergeInner(left, right, key) ==
    LET ln == LeftNames(left, right, key)
        rn == RightNames(left, right, key)
    IN  [columns |-> MergeColumns(left, right, key),
         rows |-> Flatten([i \in 1..Len(left.rows) |->
                     LET m == Matches(right, left.rows[i][key])
                     IN  [j \in 1..Len(m) |-> MergeRow(ln, rn, left.rows[i], m[j])]])]

\* pd.merge(left, right, left_on=key, right_on='sku', how='left'): the left
\* rows in their order, each once for every right row whose sku equals its
\* key, or once with NaN when there is none.
MergeLeft(left, right, key) ==
    LET ln == LeftNames(left, right, key)
        rn == RightNames(left, right, key)
    IN  [columns |-> MergeColumns(left, right, key),
         rows |-> Flatten([i \in 1..Len(left.rows) |->
                     LET m == Matches(right, left.rows[i][key])
                     IN  IF m = <<>>
                         THEN <<MergeRow(ln, rn, left.rows[i], NoRow)>>
                         ELSE [j \in 1..Len(m) |->
                                  MergeRow(ln, rn, left.rows[i], m[j])]])]

\* join_csv_files(merged_df, input_csv_path): [raised, df, merged], merged
\* being merged_df as the call leaves it: line 116 assigns the coerced sku
\* column into the caller's table.  pd.merge raises KeyError for a left_on
\* that is no column of the left table.
join_csv_files(F, C, merged, path) ==
    LET rd == read_csv(F, C, path)
    IN  IF rd.raised # "none"
        THEN [raised |-> rd.raised, df |-> NoTable, merged |-> merged]
        ELSE LET join_column == JoinColumn(rd.df.columns)
                 has_column  == join_column \in Range(rd.df.columns)
                 input_df    == IF has_column THEN AsTypeStr(rd.df, join_column)
                                ELSE rd.df
                 catalog     == IF SKU \in Range(merged.columns)
                                THEN AsTypeStr(merged, SKU) ELSE merged
             IN  IF ~has_column
                 THEN [raised |-> "KeyError", df |-> NoTable, merged |-> catalog]
                 ELSE [raised |-> "none",
                       df |-> MergeLeft(input_df, catalog, join_column),
                       merged |-> catalog]

----------------------------------------------------------------------------
(* Directory trees of the discovery specification *)

TreeDirs == { <<>>, <<DATA>>, <<DATA, SUB>>, <<MACOSX>>, <<DATA, MACOSX>>,
              <<DATA, DS_STORE>>, <<SUB, DATA>> }
TreeNames == { A_JSON, B_JSON, INPUT_CSV, DS_STORE }
TreeFiles == [dir : TreeDirs, name : TreeNames]

\* No name is both a file and a directory of the same directory.
Consistent(F) ==
    \A e \in F : ~IsDir(F \ {e}, e.dir \o <<e.name>>)

\* The subsets of S with at most k elements.
RECURSIVE SubsetsUpTo(_, _)
SubsetsUpTo(S, k) ==
    IF k = 0 THEN {{}}
    ELSE LET P == SubsetsUpTo(S, k - 1)
         IN  P \cup {p \cup {x} : p \in P, x \in S}

Trees == {F \in SubsetsUpTo(TreeFiles, MaxFiles) : Consistent(F)}

BaseDirs == {DOT, DATA, MACOSX, SUB}

InitFind ==
    /\ fs \in Trees
    /\ base_dir \in BaseDirs
    /\ content = <<>>
    /\ pc = "find"
    /\ json_files = <<>>
    /\ input_csv_path = <<>>
    /\ merged_df = NoTable
    /\ joined_df = NoTable
    /\ merged_output = NoTable
    /\ joined_output = NoTable
    /\ fault = "none"

FindJsonFiles ==
    /\ pc = "find"
    /\ json_files' = find_json_files(fs, base_dir)
    /\ pc' = "found"
    /\ UNCHANGED <<fs, content, base_dir, input_csv_path, merged_df, joined_df,
                   merged_output, joined_output, fault>>

NextFind == FindJsonFiles

SpecFind == InitFind /\ [][NextFind]_vars

----------------------------------------------------------------------------
(* Inputs of the merge specification *)

TXT_X    == <<"X">>
TXT_Y    == <<"Y">>
TXT_ACME == <<"A","c","m","e">>
TXT_1    == <<"1">>

\* {"id": 1, "name": "X", "brand": "Acme"}
Rec1 == Obj((ID :> IntV(1)) @@ (NAME :> StrV(TXT_X)) @@ (BRAND :> StrV(TXT_ACME)))
\* {"id": 1, "name": "Y"}
Rec2 == Obj((ID :> IntV(1)) @@ (NAME :> StrV(TXT_Y)))
\* {"id": "1", "name": "Y", "price": 9}
Rec3 == Obj((ID :> StrV(TXT_1)) @@ (NAME :> StrV(TXT_Y)) @@ (PRICE :> IntV(9)))
\* {"sku": 2, "name": "X"}
Rec4 == Obj((SKU :> IntV(2)) @@ (NAME :> StrV(TXT_X)))
\* {"name": "X"}
Rec5 == Obj((NAME :> StrV(TXT_X)))

ItemPool == {Rec1, Rec2, Rec3, Rec4, Rec5, Scalar}

\* data/a.json, data/b.json, data/sub/a.json
PathPool == {PathJoin(DATA, A_JSON), PathJoin(DATA, B_JSON),
             PathJoin(PathJoin(DATA, SUB), A_JSON)}

\* What a file without items may be: [], {"k": ...} (iterating it yields
\* the key, a text), not JSON, not there.
EmptyKinds == {"list", "object", "malformed", "missing"}

SeqsUpTo(S, k) == UNION {[1..n -> S] : n \in 0..k}

\* The lists of paths, each in the order find_json_files returns it in.
PathLists == {sorted(S) : S \in SUBSET PathPool}

\* The items of n files, at most k in all: <<file, item>> in file order.
Assignments(n, k) ==
    {a \in SeqsUpTo((1..n) \X ItemPool, k) :
        \A i \in 1..(Len(a) - 1) : a[i][1] <= a[i + 1][1]}

ItemsOf(a, i) ==
    LET mine == SelectSeq(a, LAMBDA x : x[1] = i)
    IN  [j \in 1..Len(mine) |-> mine[j][2]]

\* The files and their contents for the list L, the items a and the kinds
\* kd of the files without items.
FilesOf(L, a, kd) ==
    {Resolve(L[i]) : i \in {j \in 1..Len(L) : j \in DOMAIN kd => kd[j] # "missing"}}

ContentOf(L, a, kd) ==
    [e \in FilesOf(L, a, kd) |->
        LET i == CHOOSE j \in 1..Len(L) : Resolve(L[j]) = e
        IN  IF i \notin DOMAIN kd THEN [kind |-> "list", items |-> ItemsOf(a, i)]
            ELSE IF kd[i] = "object" THEN [kind |-> "object", items |-> <<Scalar>>]
            ELSE [kind |-> kd[i], items |-> <<>>]]

InitMerge ==
    /\ \E L \in PathLists :
         \E a \in Assignments(Len(L), MaxRecords) :
           \E kd \in [{i \in 1..Len(L) : ItemsOf(a, i) = <<>>} -> EmptyKinds] :
              /\ json_files = L
              /\ fs = FilesOf(L, a, kd)
              /\ content = ContentOf(L, a, kd)
    /\ base_dir = <<>>
    /\ pc = "merge"
    /\ input_csv_path = <<>>
    /\ merged_df = NoTable
    /\ joined_df = NoTable
    /\ merged_output = NoTable
    /\ joined_output = NoTable
    /\ fault = "none"

MergeJsonFiles ==
    /\ pc = "merge"
    /\ LET m == merge_json_files(fs, content, json_files)
       IN  /\ merged_df' = m.df
           /\ fault' = m.raised
    /\ pc' = "merged"
    /\ UNCHANGED <<fs, content, base_dir, json_files, input_csv_path, joined_df,
                   merged_output, joined_output>>

NextMerge == MergeJsonFiles

SpecMerge == InitMerge /\ [][NextMerge]_vars

----------------------------------------------------------------------------
(* Inputs of the join specification *)

QTY      == <<"q","t","y">>
SKU_CODE == <<"s","k","u","_","c","o","d","e">>
ITEM_SKU == <<"I","t","e","m","_","S","K","U">>
TXT_2    == <<"2">>
TXT_5    == <<"5">>
TXT_N    == <<"n">>

\* A column of a layout: its name and the cells it may hold (an empty cell
\* is read as NaN).
KeyCol(name)   == [name |-> name, cells |-> {TXT_1, TXT_2, <<>>}]
\* A key column in which every row has a value.
FullKeyCol(name) == [name |-> name, cells |-> {TXT_1, TXT_2}]
OtherCol(name) == [name |-> name, cells |-> {TXT_2}]
QtyCol         == [name |-> QTY,  cells |-> {TXT_5}]
NameCol        == [name |-> NAME, cells |-> {TXT_N}]

Layouts ==
    { <<KeyCol(PRODUCT_SKU), QtyCol>>,
      <<QtyCol, KeyCol(SKU_CODE)>>,
      <<QtyCol>>,
      <<KeyCol(SKU), QtyCol>>,
      <<OtherCol(SKU_CODE), QtyCol, FullKeyCol(PRODUCT_SKU)>>,
      <<QtyCol, FullKeyCol(ITEM_SKU), OtherCol(SKU_CODE)>>,
      <<FullKeyCol(PRODUCT_SKU), NameCol, QtyCol>> }

LayoutRows(lay) ==
    {r \in [{lay[i].name : i \in 1..Len(lay)} ->
                UNION {lay[i].cells : i \in 1..Len(lay)}] :
        \A i \in 1..Len(lay) : r[lay[i].name] \in lay[i].cells}

CsvFiles ==
    UNION {{[kind |-> "csv",
             columns |-> [i \in 1..Len(lay) |-> lay[i].name],
             rows |-> rows] : rows \in SeqsUpTo(LayoutRows(lay), MaxRows)} :
           lay \in Layouts}

\* The tables merge_json_files returns for the lists of PathLists and at
\* most MaxCatalogRecords items.  A file that yields no record is skipped
\* whatever the reason, so one kind of it stands for all in this set.
Catalogs ==
    UNION {UNION {{merge_json_files(FilesOf(L, a, kd), ContentOf(L, a, kd), L).df :
                      kd \in [{i \in 1..Len(L) : ItemsOf(a, i) = <<>>} -> {"missing"}]} :
                  a \in Assignments(Len(L), MaxCatalogRecords)} :
           L \in PathLists} \ {NoTable}

InputCsvFile == [dir |-> <<>>, name |-> INPUT_CSV]

\* The state in which main calls join_csv_files: the Catalog Table has been
\* written, input.csv is there or not.
InitJoin ==
    /\ merged_df \in Catalogs
    /\ merged_output = merged_df
    /\ \/ /\ fs = {}
          /\ content = <<>>
       \/ /\ fs = {InputCsvFile}
          /\ \E csv \in CsvFiles : content = [e \in {InputCsvFile} |-> csv]
    /\ input_csv_path = INPUT_CSV
    /\ base_dir = <<>>
    /\ json_files = <<>>
    /\ pc = "join"
    /\ joined_df = NoTable
    /\ joined_output = NoTable
    /\ fault = "none"

JoinCsvFiles ==
    /\ pc = "join"
    /\ LET j == join_csv_files(fs, content, merged_df, input_csv_path)
       IN  /\ joined_df' = j.df
           /\ merged_df' = j.merged
           /\ fault' = j.raised
    /\ pc' = "joined"
    /\ UNCHANGED <<fs, content, base_dir, json_files, input_csv_path,
                   merged_output, joined_output>>

NextJoin == JoinCsvFiles

SpecJoin == InitJoin /\ [][NextJoin]_vars

----------------------------------------------------------------------------
(* main *)

data_dir == DATA

\* The files a run of main may find: JSON catalogs and input.csv in the
\* current directory, in data, in another directory and in _MACOSX.
MainDirs  == { <<>>, <<DATA>>, <<SUB>>, <<MACOSX>> }
MainNames == { A_JSON, B_JSON, INPUT_CSV }
MainTrees == SubsetsUpTo([dir : MainDirs, name : MainNames], MaxFiles)

JsonPool == { [kind |-> "list", items |-> <<Rec1>>],
              [kind |-> "list", items |-> <<Rec3>>],
              [kind |-> "malformed", items |-> <<>>] }

CsvPool == { [kind |-> "csv", columns |-> <<PRODUCT_SKU, QTY>>,
              rows |-> << (PRODUCT_SKU :> TXT_1) @@ (QTY :> TXT_5),
                          (PRODUCT_SKU :> TXT_2) @@ (QTY :> TXT_5) >>],
             [kind |-> "csv", columns |-> <<QTY>>,
              rows |-> << (QTY :> TXT_5) >>] }

Contents(F) ==
    {c \in [F -> JsonPool \cup CsvPool] :
        \A e \in F : (e.name = INPUT_CSV) <=> (c[e] \in CsvPool)}

InitMain ==
    /\ fs \in MainTrees
    /\ content \in Contents(fs)
    /\ pc = "start"
    /\ base_dir = DOT
    /\ json_files = <<>>
    /\ input_csv_path = INPUT_CSV
    /\ merged_df = NoTable
    /\ joined_df = NoTable
    /\ merged_output = NoTable
    /\ joined_output = NoTable
    /\ fault = "none"

\* The path of a file, from the directory base down.
RECURSIVE JoinAll(_, _)
JoinAll(root, names) ==
    IF names = <<>> THEN root ELSE JoinAll(PathJoin(root, Head(names)), Tail(names))

FullPath(base, e) ==
    JoinAll(base, SubSeq(e.dir, Len(Loc(base)) + 1, Len(e.dir)) \o <<e.name>>)

\* Lines 138-145: when input.csv is not in the current directory, the first
\* directory os.walk yields that holds one gives the path.  os.walk yields a
\* directory before those below it and sibling directories in no fixed
\* order.
MainLocateInput ==
    /\ pc = "start"
    /\ IF PathExists(fs, input_csv_path) \/ \A e \in fs : e.name # INPUT_CSV
       THEN UNCHANGED input_csv_path
       ELSE \E e \in fs :
               /\ e.name = INPUT_CSV
               /\ \A x \in fs : x.name = INPUT_CSV /\ IsPrefix(x.dir, e.dir) => x = e
               /\ input_csv_path' = FullPath(base_dir, e)
    /\ pc' = "find"
    /\ UNCHANGED <<fs, content, base_dir, json_files, merged_df, joined_df,
                   merged_output, joined_output, fault>>

\* Lines 148-159: the JSON files of data, else of the current directory;
\* main returns when there is none.
MainFindJson ==
    /\ pc = "find"
    /\ LET in_data == find_json_files(fs, data_dir)
           all_json_files == IF in_data = <<>> THEN find_json_files(fs, base_dir)
                             ELSE in_data
       IN  /\ json_files' = all_json_files
           /\ pc' = IF all_json_files = <<>> THEN "done" ELSE "merge"
    /\ UNCHANGED <<fs, content, base_dir, input_csv_path, merged_df, joined_df,
                   merged_output, joined_output, fault>>

\* Lines 162-163: the merge, then merged_output.csv is written.  An
\* exception of merge_json_files leaves main.
MainMerge ==
    /\ pc = "merge"
    /\ LET m == merge_json_files(fs, content, json_files)
       IN  IF m.raised # "none"
           THEN /\ fault' = m.raised
                /\ pc' = "crashed"
                /\ UNCHANGED <<merged_df, merged_output>>
           ELSE /\ merged_df' = m.df
                /\ merged_output' = m.df
                /\ pc' = "join"
                /\ UNCHANGED fault
    /\ UNCHANGED <<fs, content, base_dir, json_files, input_csv_path, joined_df,
                   joined_output>>

\* Lines 167-170: the join, then joined_output.csv is written.  An
\* exception of join_csv_files leaves main.
MainJoin ==
    /\ pc = "join"
    /\ LET j == join_csv_files(fs, content, merged_df, input_csv_path)
       IN  /\ merged_df' = j.merged
           /\ IF j.raised # "none"
              THEN /\ fault' = j.raised
                   /\ pc' = "crashed"
                   /\ UNCHANGED <<joined_df, joined_output>>
              ELSE /\ joined_df' = j.df
                   /\ joined_output' = j.df
                   /\ pc' = "done"
                   /\ UNCHANGED fault
    /\ UNCHANGED <<fs, content, base_dir, json_files, input_csv_path, merged_output>>

NextMain == MainLocateInput \/ MainFindJson \/ MainMerge \/ MainJoin

SpecMain == InitMain /\ [][NextMain]_vars

----------------------------------------------------------------------------
(* Claims about merge_json_files *)

\* The table of all ingested records, before the sort and the deduplication.
Ingested == RenameId(DataFrame(AllRecords(fs, content, json_files))).rows

Failed(path) == ~ReadFile(fs, content, path).ok

RowsWithSku(rows, v) == {j \in 1..Len(rows) : rows[j][SKU] = v}

\* C1: the table merge_json_files returns has exactly one row for each sku
\* value among the ingested records and no other row, and the row kept for a
\* sku is an ingested record of that sku whose category is the greatest, in
\* lexicographic order, among the ingested records of that sku.
C1_OneRowPerSku ==
    (pc = "merged" /\ fault = "none") =>
        LET ing  == Ingested
            rows == merged_df.rows
        IN  /\ \A i \in 1..Len(ing) :
                   Cardinality(RowsWithSku(rows, ing[i][SKU])) = 1
            /\ \A j \in 1..Len(rows) :
                   \E i \in 1..Len(ing) :
                       /\ ing[i][SKU] = rows[j][SKU]
                       /\ ing[i][CATEGORY] = rows[j][CATEGORY]
                       /\ ing[i][NAME] = rows[j][NAME]
                       /\ \A k \in 1..Len(ing) :
                              ing[k][SKU] = ing[i][SKU] =>
                                  StrLeq(ing[k][CATEGORY].s, ing[i][CATEGORY].s)

C1_Witness ==
    /\ pc = "merged" /\ fault = "none"
    /\ Len(merged_df.rows) = 2
    /\ LET ing == Ingested
       IN  \E i, k \in 1..Len(ing) :
               /\ i < k
               /\ ing[i][SKU] = ing[k][SKU]
               /\ StrLess(ing[k][CATEGORY].s, ing[i][CATEGORY].s)

\* The number of items of the files of a list that do not fail.
RECURSIVE GoodItems(_)
GoodItems(files) ==
    IF files = <<>> THEN 0
    ELSE (IF Failed(Head(files)) THEN 0
          ELSE Len(content[Resolve(Head(files))].items)) + GoodItems(Tail(files))

\* C3: when a file of the list fails to read or parse, merge_json_files
\* still returns a table; the records it ingested are those of the files
\* that did not fail, each sku among them has a row, and every row has the
\* category of a file that did not fail.
C3_BadFileSkipped ==
    (pc = "merged" /\ \E i \in 1..Len(json_files) : Failed(json_files[i])) =>
        LET ing == Ingested
        IN  /\ fault = "none"
            /\ Len(ing) = GoodItems(json_files)
            /\ \A i \in 1..Len(ing) : RowsWithSku(merged_df.rows, ing[i][SKU]) # {}
            /\ \A j \in 1..Len(merged_df.rows) :
                   \E i \in 1..Len(json_files) :
                       /\ ~Failed(json_files[i])
                       /\ merged_df.rows[j][CATEGORY].s = splitext0(basename(json_files[i]))

\* C4: merge_json_files returns, for every list of files, a table with the
\* columns sku, name, brand, category in that order; a required column that
\* no record has holds "" in every row; without records the table has no
\* rows.
C4_FixedSchema ==
    pc = "merged" =>
        /\ fault = "none"
        /\ merged_df.columns = required_columns
        /\ \A j \in 1..Len(merged_df.rows) :
               /\ DOMAIN merged_df.rows[j] = Range(required_columns)
               /\ \A c \in Range(required_columns) :
                      (\A i \in 1..Len(Ingested) : c \notin DOMAIN Ingested[i]) =>
                          merged_df.rows[j][c] = EmptyStr
        /\ (Ingested = <<>> => merged_df.rows = <<>>)

----------------------------------------------------------------------------
(* Claims about join_csv_files.  merged_output is the Catalog Table as it   *)
(* was handed to the call.                                                  *)

\* The external table as read.
ExtDf == read_csv(fs, content, input_csv_path).df
ExtColumns == Range(ExtDf.columns)

CatalogColumns == {SKU, NAME, BRAND, CATEGORY}

\* The column of the Joined Table that holds column c of the catalog, and
\* the one that holds column c of the external table, for the join key k.
CatCol(c, k) ==
    IF c = SKU /\ k = SKU THEN SKU
    ELSE IF c \in ExtColumns THEN c \o SUFFIX_Y ELSE c
ExtCol(c, k) ==
    IF c \in CatalogColumns /\ ~(c = SKU /\ k = SKU) THEN c \o SUFFIX_X ELSE c

\* The texts compared: of the key of external row i, of the sku of catalog
\* row j.
KeyText(i, k) == CellStr(ExtDf.rows[i][k])
SkuText(j) == CellStr(merged_output.rows[j][SKU])

\* Joined row jr is external row i.
FromExt(jr, i, k) ==
    \A c \in ExtColumns :
        jr[ExtCol(c, k)] = IF c = k THEN StrV(KeyText(i, k)) ELSE ExtDf.rows[i][c]

\* Joined row jr carries catalog row j.
Attached(jr, j, k) ==
    /\ \A c \in {NAME, BRAND, CATEGORY} : jr[CatCol(c, k)] = merged_output.rows[j][c]
    /\ jr[CatCol(SKU, k)] = StrV(SkuText(j))

\* Joined row jr carries no catalog row.
Unattached(jr, k) == \A c \in CatalogColumns : jr[CatCol(c, k)] = NaN

\* The same, the catalog's sku aside.
UnattachedButSku(jr, k) == \A c \in {NAME, BRAND, CATEGORY} : jr[CatCol(c, k)] = NaN

Joined == pc = "joined" /\ fault = "none"
ExtRows == 1..Len(ExtDf.rows)
CatRows == 1..Len(merged_output.rows)
JoinedRows == 1..Len(joined_df.rows)

\* C2: the Joined Table has as many rows as the external CSV, and every
\* external row is in it exactly once.
C2_LeftCardinality ==
    Joined =>
        LET k == JoinColumn(ExtDf.columns)
        IN  /\ Len(joined_df.rows) = Len(ExtDf.rows)
            /\ \A i \in ExtRows :
                   Cardinality({n \in JoinedRows : FromExt(joined_df.rows[n], i, k)})
                       = Cardinality({m \in ExtRows : ExtDf.rows[m] = ExtDf.rows[i]})

\* C5: for an external CSV without product_sku and without a column whose
\* name contains "sku", the call returns a table with every external row
\* and null name, brand, category and sku in every row.
NoSkuColumn ==
    /\ InputCsvFile \in fs
    /\ \A c \in ExtColumns : c # PRODUCT_SKU /\ ~Contains(StrLower(c), SKU)

C5_NoKeyStillJoins ==
    (pc = "joined" /\ NoSkuColumn) =>
        /\ fault = "none"
        /\ Len(joined_df.rows) = Len(ExtDf.rows)
        /\ \A n \in JoinedRows : Unattached(joined_df.rows[n], PRODUCT_SKU)

\* C7 as stated: an external row is joined to a catalog row exactly when
\* the text of its key equals the text of that row's sku, and then carries
\* its name, brand, category and sku; an external row whose key text is no
\* catalog sku text carries null name, brand, category and sku.
C7_Original ==
    Joined =>
        LET k == JoinColumn(ExtDf.columns)
        IN  /\ \A i \in ExtRows : \A j \in CatRows :
                   (KeyText(i, k) = SkuText(j)) <=>
                       \E n \in JoinedRows : /\ FromExt(joined_df.rows[n], i, k)
                                             /\ Attached(joined_df.rows[n], j, k)
            /\ \A i \in ExtRows :
                   (\A j \in CatRows : KeyText(i, k) # SkuText(j)) =>
                       \E n \in JoinedRows : /\ FromExt(joined_df.rows[n], i, k)
                                             /\ Unattached(joined_df.rows[n], k)

\* C7 as amended: the same, except that when the key column of the external
\* table is itself named sku the Joined Table has one sku column, which
\* holds the external key text also in the rows without a match.
C7_TextMatch ==
    Joined =>
        LET k == JoinColumn(ExtDf.columns)
        IN  /\ \A i \in ExtRows : \A j \in CatRows :
                   (KeyText(i, k) = SkuText(j)) <=>
                       \E n \in JoinedRows : /\ FromExt(joined_df.rows[n], i, k)
                                             /\ Attached(joined_df.rows[n], j, k)
            /\ \A i \in ExtRows :
                   (\A j \in CatRows : KeyText(i, k) # SkuText(j)) =>
                       \E n \in JoinedRows :
                           /\ FromExt(joined_df.rows[n], i, k)
                           /\ UnattachedButSku(joined_df.rows[n], k)
                           /\ joined_df.rows[n][CatCol(SKU, k)] =
                                  IF k = SKU THEN StrV(KeyText(i, k)) ELSE NaN

C7_Witness ==
    /\ Joined
    /\ LET k == JoinColumn(ExtDf.columns)
       IN  /\ \E i \in ExtRows : \E j \in CatRows :
                  /\ merged_output.rows[j][SKU].t = "str"
                  /\ ExtDf.rows[i][k].t = "int"
                  /\ KeyText(i, k) = SkuText(j)
           /\ \E i \in ExtRows : \A j \in CatRows : KeyText(i, k) # SkuText(j)

C7_WitnessSkuKey ==
    /\ Joined
    /\ JoinColumn(ExtDf.columns) = SKU
    /\ \E i \in ExtRows : \A j \in CatRows : KeyText(i, SKU) # SkuText(j)

\* C8: the rows of the Joined Table are matched on product_sku when the
\* external table has that column, and otherwise on its first column whose
\* name contains "sku" in any case: a row carries a catalog row whose sku
\* text is the text of that column, or no catalog row when no sku text is.
IsKeyColumn(k) ==
    /\ k \in ExtColumns
    /\ PRODUCT_SKU \in ExtColumns => k = PRODUCT_SKU
    /\ PRODUCT_SKU \notin ExtColumns =>
           \E p \in 1..Len(ExtDf.columns) :
               /\ ExtDf.columns[p] = k
               /\ Contains(StrLower(k), SKU)
               /\ \A q \in 1..(p - 1) : ~Contains(StrLower(ExtDf.columns[q]), SKU)

C8_JoinKey ==
    (pc = "joined" /\ \E k \in ExtColumns : IsKeyColumn(k)) =>
        /\ fault = "none"
        /\ \A k \in ExtColumns : IsKeyColumn(k) =>
               \A n \in JoinedRows :
                   LET jr == joined_df.rows[n]
                   IN  IF jr[CatCol(CATEGORY, k)] = NaN
                       THEN \A j \in CatRows : SkuText(j) # jr[ExtCol(k, k)].s
                       ELSE \E j \in CatRows :
                               /\ SkuText(j) = jr[ExtCol(k, k)].s
                               /\ Attached(jr, j, k)

C8_Witness ==
    /\ Joined
    /\ PRODUCT_SKU \notin ExtColumns
    /\ \E k \in ExtColumns :
           /\ IsKeyColumn(k)
           /\ k # StrLower(k)
           /\ \E c \in ExtColumns : c # k /\ Contains(StrLower(c), SKU)
           /\ \E n \in JoinedRows : joined_df.rows[n][CatCol(CATEGORY, k)] # NaN
           /\ \E n \in JoinedRows : joined_df.rows[n][CatCol(CATEGORY, k)] = NaN

----------------------------------------------------------------------------
(* Claims about find_json_files *)

\* C9: find_json_files(base_dir) returns, in strictly ascending order of the
\* full path, exactly the paths of the files below base_dir whose name ends
\* in .json and that have no directory named _MACOSX or .DS_Store between
\* base_dir and them; for a base_dir that does not exist it returns the
\* empty list.
ExpectedJson(F, base) ==
    {e \in F : /\ IsPrefix(Loc(base), e.dir)
               /\ EndsWith(e.name, JSON_EXT)
               /\ \A i \in (Len(Loc(base)) + 1)..Len(e.dir) :
                      e.dir[i] \notin {MACOSX, DS_STORE}}

C9_Discovery ==
    pc = "found" =>
        /\ Range(json_files) = {FullPath(base_dir, e) : e \in ExpectedJson(fs, base_dir)}
        /\ \A i \in 1..(Len(json_files) - 1) : StrLess(json_files[i], json_files[i + 1])
        /\ (~PathExists(fs, base_dir) => json_files = <<>>)

C9_Witness ==
    /\ pc = "found"
    /\ Len(json_files) >= 2
    /\ \E e \in fs : EndsWith(e.name, JSON_EXT) /\ IsPrefix(Loc(base_dir), e.dir)
                     /\ e \notin ExpectedJson(fs, base_dir)

C9_WitnessMissingDir ==
    pc = "found" /\ ~PathExists(fs, base_dir) /\ fs # {}

----------------------------------------------------------------------------
(* Claims about main *)

Ended == pc \in {"done", "crashed"}

NoJsonAnywhere == ExpectedJson(fs, DATA) = {} /\ ExpectedJson(fs, DOT) = {}
NoInputCsv == \A e \in fs : e.name # INPUT_CSV

\* C6: main ends without an exception leaving it in both fatal cases: with
\* no JSON file in data nor below the current directory it writes neither
\* output; with input.csv nowhere it stops at the join, merged_output.csv
\* written and joined_output.csv not.
C6_GracefulHalt ==
    Ended =>
        /\ NoJsonAnywhere =>
               fault = "none" /\ merged_output = NoTable /\ joined_output = NoTable
        /\ (NoInputCsv /\ merged_output # NoTable) =>
               fault = "none" /\ joined_output = NoTable

\* C10: the join stage leaves the Catalog Table as it was when
\* merged_output.csv was written.
C10_CatalogUntouched ==
    merged_output # NoTable => merged_df = merged_output

=============================================================================
